---------------------------- MODULE Spec2Model ----------------------------
(***************************************************************************)
(* Batch upload session controller of the Qubo front end.                  *)
(*                                                                         *)
(* Two React components carry the same controller:                         *)
(*   - the inline uploader  FileUploader       (hooks/useJWTAuth.js 26-233)*)
(*   - the dialog uploader  FileUploaderDialog (FileUploaderDialog.jsx     *)
(*     1-185), mounted by SideMenu (SideMenu.jsx 82-90).                   *)
(* The variable `variant` selects which one a behaviour is about.          *)
(*                                                                         *)
(* React state (useState) is the program state.  An event handler runs to  *)
(* completion and React re-renders before the next event is delivered, so  *)
(* a handler that starts reads the current state; an async handler that    *)
(* was suspended at an await keeps the values it captured (the FormData it *)
(* built) and resumes in a later step.                                     *)
(***************************************************************************)
EXTENDS Integers, Sequences, FiniteSets, TLC

VARIABLES
    variant,      \* "inline" | "dialog": which component this behaviour is
    open,         \* SideMenu.openDialog (prop `open`); TRUE for the inline one
    files,        \* useState([])  : File[]
    isUploading,  \* useState(false)
    isDragging,   \* useState(false)
    requests,     \* suspended handleSendAll calls, one per fetch in flight
    dispatched,   \* number of fetch(uploadUrl, POST) calls made so far
    lastEvent,    \* name of the handler / continuation that ran last
    lastInput,    \* what that handler was given
    lastAlerts,   \* alert(...) calls made by it, in order
    lastCalls,    \* prop callbacks (onUpload, onClose) made by it, in order
    totalSize,    \* useMemo(() => files.reduce(...), [files])
    localStorage, \* window.localStorage: auth_token, refresh_token
    useFetch,     \* the useFetch hook: token state, suspended fetchWithAuth calls
    authModal,    \* the AuthModal component: its useState values, handleSubmit
    chatbot       \* the Chatbot component: its useState values, handleSend

\* the state of the two uploader components
uploaderVars == <<variant, open, files, isUploading, isDragging, requests,
                  dispatched, lastEvent, lastInput, lastAlerts, lastCalls,
                  totalSize>>

\* the state of the components around them
sessionVars == <<useFetch, authModal, chatbot>>

vars == <<variant, open, files, isUploading, isDragging, requests, dispatched,
          lastEvent, lastInput, lastAlerts, lastCalls, totalSize,
          localStorage, useFetch, authModal, chatbot>>

---------------------------------------------------------------------------
(* Bounds of the model *)

MaxBatch == 2      \* longest FileList handed to addFiles
MaxSubmits == 2    \* fetch calls per behaviour
MaxCalls == 1      \* fetchWithAuth calls suspended at the same time
MaxSends == 2      \* chat requests per behaviour

---------------------------------------------------------------------------
(* Strings are sequences of one-character strings *)

DigitChars == <<"0", "1", "2", "3", "4", "5", "6", "7", "8", "9">>

RECURSIVE NumStr(_)
\* `${n}` for a non-negative integer
NumStr(n) == IF n < 10 THEN <<DigitChars[n + 1]>>
             ELSE NumStr(n \div 10) \o <<DigitChars[(n % 10) + 1]>>

\* String.prototype.toLowerCase on the characters the model uses
LowerChar(c) == CASE c = "A" -> "a"
                  [] c = "B" -> "b"
                  [] c = "D" -> "d"
                  [] c = "F" -> "f"
                  [] c = "P" -> "p"
                  [] c = "R" -> "r"
                  [] c = "T" -> "t"
                  [] c = "X" -> "x"
                  [] OTHER -> c

toLowerCase(s) == [i \in DOMAIN s |-> LowerChar(s[i])]

endsWith(s, suffix) ==
    /\ Len(s) >= Len(suffix)
    /\ SubSeq(s, Len(s) - Len(suffix) + 1, Len(s)) = suffix

---------------------------------------------------------------------------
(* File objects the user can pick or drop *)

accept == <<"application/pdf">>
DotPdf == <<".", "p", "d", "f">>

File(n, s, m, t) == [name |-> n, size |-> s, lastModified |-> m, type |-> t]

APdf      == File(<<"a", ".", "p", "d", "f">>, 1000, 111, accept)
APdfAgain == File(<<"a", ".", "p", "d", "f">>, 1000, 111, <<>>)
ASmall    == File(<<"a", ".", "p", "d", "f">>, 1, 111, accept)
Report    == File(<<"r", "e", "p", "o", "r", "t", ".", "P", "D", "F">>, 7, 3, <<>>)
BTxt      == File(<<"b", ".", "t", "x", "t">>, 500, 112, <<"text/plain">>)
ImagePng  == File(<<"i", "m", "a", "g", "e", ".", "p", "n", "g">>, 3, 4, <<"image/png">>)

Files == {APdf, APdfAgain, ASmall, Report, BTxt}

SeqsUpTo(S, n) == UNION {[1..k -> S] : k \in 0..n}

\* e.target.files / e.dataTransfer.files: a FileList, or null/undefined
FileList(items) == [isNull |-> FALSE, items |-> items]
NullFileList == [isNull |-> TRUE, items |-> <<>>]
FileLists == {NullFileList} \cup {FileList(q) : q \in SeqsUpTo(Files, MaxBatch)}

\* the file lists picked or dropped while an upload session is followed
SessionFileLists ==
    {NullFileList, FileList(<<>>),
     FileList(<<APdf>>), FileList(<<APdfAgain>>), FileList(<<Report>>),
     FileList(<<BTxt>>), FileList(<<APdfAgain, APdf>>), FileList(<<BTxt, Report>>)}

\* the file lists picked through the file input while the selection store
\* alone is followed
SelectionFileLists ==
    SessionFileLists \cup
    {FileList(<<APdf, BTxt, APdf>>), FileList(<<Report, ImagePng>>),
     FileList(<<ImagePng>>)}

---------------------------------------------------------------------------
(* addFiles *)

\* a key made of the name alone
KeyNameOnly(f) == f.name

\* `${f.name}-${f.size}-${f.lastModified}`
Key(f) == f.name \o <<"-">> \o NumStr(f.size) \o <<"-">> \o NumStr(f.lastModified)

\* the identity (name, size, lastModified) of a file reference
Identity(f) == <<f.name, f.size, f.lastModified>>

\* a JS Map as the sequence of its [key, value] entries in insertion order
MapHas(m, k) == \E i \in DOMAIN m : m[i][1] = k

MapSet(m, k, v) ==
    IF MapHas(m, k)
    THEN [i \in DOMAIN m |-> IF m[i][1] = k THEN <<k, v>> ELSE m[i]]
    ELSE Append(m, <<k, v>>)

RECURSIVE NewMap(_)
\* new Map(entries)
NewMap(entries) ==
    IF entries = <<>> THEN <<>>
    ELSE LET n == Len(entries)
         IN  MapSet(NewMap(SubSeq(entries, 1, n - 1)), entries[n][1], entries[n][2])

MapValues(m) == [i \in DOMAIN m |-> m[i][2]]

\* the test on the declared type alone
isPdfTypeOnly(f) == f.type = accept

isPdf(f) == f.type = accept \/ endsWith(toLowerCase(f.name), DotPdf)

Alert(kind, detail) == [kind |-> kind, detail |-> detail]

SkippedAlert(f) == Alert("skipped", f.name)

RECURSIVE FilterAlerts(_)
\* the alerts raised by incoming.filter(...), one per file that is not a PDF
FilterAlerts(incoming) ==
    IF incoming = <<>> THEN <<>>
    ELSE LET n == Len(incoming)
             before == FilterAlerts(SubSeq(incoming, 1, n - 1))
         IN  IF isPdf(incoming[n]) THEN before
             ELSE Append(before, SkippedAlert(incoming[n]))

RECURSIVE filteredUntilRejected(_)
\* a filter that gives up at the first file that is not a PDF
filteredUntilRejected(incoming) ==
    IF incoming = <<>> \/ ~isPdf(Head(incoming)) THEN <<>>
    ELSE <<Head(incoming)>> \o filteredUntilRejected(Tail(incoming))

filtered(incoming) == SelectSeq(incoming, isPdf)

RECURSIVE MergeLoopOverwrite(_, _)
\* the merge loop without the map.has test: a later reference replaces the entry
MergeLoopOverwrite(map, fs) ==
    IF fs = <<>> THEN map
    ELSE LET n == Len(fs)
             m == MergeLoopOverwrite(map, SubSeq(fs, 1, n - 1))
         IN  MapSet(m, Key(fs[n]), fs[n])

\* the merge as a plain concatenation [...prev, ...filtered]
MergeFilesConcat(prev, fs) == prev \o fs

RECURSIVE MergeLoop(_, _)
\* for (const f of filtered) { if (!map.has(key)) map.set(key, f) }
MergeLoop(map, fs) ==
    IF fs = <<>> THEN map
    ELSE LET n == Len(fs)
             m == MergeLoop(map, SubSeq(fs, 1, n - 1))
             f == fs[n]
         IN  IF ~MapHas(m, Key(f)) THEN MapSet(m, Key(f), f) ELSE m

\* the merge with the incoming files put in front of the previous entries
MergeFilesPrepend(prev, fs) ==
    MapValues(MergeLoop(MergeLoop(<<>>, fs), prev))

\* the updater passed to setFiles
MergeFiles(prev, fs) ==
    MapValues(MergeLoop(NewMap([i \in DOMAIN prev |-> <<Key(prev[i]), prev[i]>>]), fs))

\* files after addFiles(fileList)
addFilesFiles(prev, fileList) ==
    IF fileList.isNull \/ Len(fileList.items) = 0 THEN prev
    ELSE MergeFiles(prev, filtered(fileList.items))

\* an addFiles that reports a missing or empty file list
addFilesAlertsNoticeWhenEmpty(fileList) ==
    IF fileList.isNull \/ Len(fileList.items) = 0 THEN <<Alert("skipped", <<>>)>>
    ELSE FilterAlerts(fileList.items)

\* alerts raised by addFiles(fileList)
addFilesAlerts(fileList) ==
    IF fileList.isNull \/ Len(fileList.items) = 0 THEN <<>>
    ELSE FilterAlerts(fileList.items)

---------------------------------------------------------------------------
(* totalSize *)

RECURSIVE reduceSize(_)
\* files.reduce((acc, f) => acc + f.size, 0)
reduceSize(fs) ==
    IF fs = <<>> THEN 0
    ELSE reduceSize(SubSeq(fs, 1, Len(fs) - 1)) + fs[Len(fs)].size

\* useMemo with an empty dependency list: computed on mount only
totalSizeMemoNoDeps(memo, prevFiles, nextFiles) == memo

\* useMemo(..., [files]) at a render: recomputed when files has changed
totalSizeMemo(memo, prevFiles, nextFiles) ==
    IF nextFiles = prevFiles THEN memo ELSE reduceSize(nextFiles)

---------------------------------------------------------------------------
(* State *)

NoInput == [fileList |-> NullFileList, idx |-> -1, guard |-> "none", res |-> "none",
            status |-> 0, body |-> "none", onUpload |-> "none"]

Rendered == variant = "inline" \/ open

\* the uploader component after its first render
InitUploader ==
    /\ variant \in {"inline", "dialog"}
    /\ open = (variant = "inline")
    /\ files = <<>>
    /\ isUploading = FALSE
    /\ isDragging = FALSE
    /\ requests = <<>>
    /\ dispatched = 0
    /\ lastEvent = "mount"
    /\ lastInput = NoInput
    /\ lastAlerts = <<>>
    /\ lastCalls = <<>>
    /\ totalSize = reduceSize(<<>>)

---------------------------------------------------------------------------
(* Selection handlers *)

handleFileChange(lists) ==
    /\ Rendered
    /\ \E fl \in lists :
        /\ files' = addFilesFiles(files, fl)
        /\ lastAlerts' = addFilesAlerts(fl)
        /\ lastInput' = [NoInput EXCEPT !.fileList = fl]
    /\ lastEvent' = "handleFileChange"
    /\ lastCalls' = <<>>
    /\ UNCHANGED <<variant, open, isUploading, isDragging, requests, dispatched>>
    /\ totalSize' = totalSizeMemo(totalSize, files, files')
    /\ UNCHANGED <<localStorage, sessionVars>>

handleDragOver ==
    /\ Rendered
    /\ isDragging' = TRUE
    /\ lastEvent' = "handleDragOver"
    /\ lastInput' = NoInput
    /\ lastAlerts' = <<>>
    /\ lastCalls' = <<>>
    /\ UNCHANGED <<variant, open, files, isUploading, requests, dispatched>>
    /\ totalSize' = totalSizeMemo(totalSize, files, files')
    /\ UNCHANGED <<localStorage, sessionVars>>

handleDragLeave ==
    /\ Rendered
    /\ isDragging' = FALSE
    /\ lastEvent' = "handleDragLeave"
    /\ lastInput' = NoInput
    /\ lastAlerts' = <<>>
    /\ lastCalls' = <<>>
    /\ UNCHANGED <<variant, open, files, isUploading, requests, dispatched>>
    /\ totalSize' = totalSizeMemo(totalSize, files, files')
    /\ UNCHANGED <<localStorage, sessionVars>>

\* a drop handler that forgets setIsDragging(false)
handleDropKeepsDragging(lists) ==
    /\ Rendered
    /\ \E fl \in lists :
        /\ files' = addFilesFiles(files, fl)
        /\ lastAlerts' = addFilesAlerts(fl)
        /\ lastInput' = [NoInput EXCEPT !.fileList = fl]
    /\ lastEvent' = "handleDrop"
    /\ lastCalls' = <<>>
    /\ UNCHANGED <<variant, open, isUploading, isDragging, requests, dispatched>>
    /\ totalSize' = totalSizeMemo(totalSize, files, files')
    /\ UNCHANGED <<localStorage, sessionVars>>

handleDrop(lists) ==
    /\ Rendered
    /\ isDragging' = FALSE
    /\ \E fl \in lists :
        /\ files' = addFilesFiles(files, fl)
        /\ lastAlerts' = addFilesAlerts(fl)
        /\ lastInput' = [NoInput EXCEPT !.fileList = fl]
    /\ lastEvent' = "handleDrop"
    /\ lastCalls' = <<>>
    /\ UNCHANGED <<variant, open, isUploading, requests, dispatched>>
    /\ totalSize' = totalSizeMemo(totalSize, files, files')
    /\ UNCHANGED <<localStorage, sessionVars>>

\* the filter with idx taken as a position counted from 1
removeFileFilesOneBased(prev, idx) ==
    LET keep == {i \in DOMAIN prev : i # idx}
        pos(k) == CHOOSE i \in keep : Cardinality({j \in keep : j <= i}) = k
    IN  [k \in 1..Cardinality(keep) |-> prev[pos(k)]]

\* prev.filter((_, i) => i !== idx), idx counted from 0
removeFileFiles(prev, idx) ==
    LET keep == {i \in DOMAIN prev : i - 1 # idx}
        pos(k) == CHOOSE i \in keep : Cardinality({j \in keep : j <= i}) = k
    IN  [k \in 1..Cardinality(keep) |-> prev[pos(k)]]

\* a removeFile that also takes the file out of the request in flight
removeFileRewritesPayload ==
    /\ Rendered
    /\ \E idx \in 0..Len(files) :
        /\ files' = removeFileFiles(files, idx)
        /\ requests' = [i \in DOMAIN requests |->
                           [requests[i] EXCEPT
                               !.body = [k \in DOMAIN files' |-> <<"files", files'[k]>>]]]
        /\ lastInput' = [NoInput EXCEPT !.idx = idx]
    /\ lastEvent' = "removeFile"
    /\ lastAlerts' = <<>>
    /\ lastCalls' = <<>>
    /\ UNCHANGED <<variant, open, isUploading, isDragging, dispatched>>
    /\ totalSize' = totalSizeMemo(totalSize, files, files')
    /\ UNCHANGED <<localStorage, sessionVars>>

removeFile ==
    /\ Rendered
    /\ \E idx \in 0..Len(files) :
        /\ files' = removeFileFiles(files, idx)
        /\ lastInput' = [NoInput EXCEPT !.idx = idx]
    /\ lastEvent' = "removeFile"
    /\ lastAlerts' = <<>>
    /\ lastCalls' = <<>>
    /\ UNCHANGED <<variant, open, isUploading, isDragging, requests, dispatched>>
    /\ totalSize' = totalSizeMemo(totalSize, files, files')
    /\ UNCHANGED <<localStorage, sessionVars>>

\* the Clear button is disabled while uploading or with nothing selected
clearAll ==
    /\ Rendered
    /\ ~(isUploading \/ Len(files) = 0)
    /\ files' = <<>>
    /\ lastEvent' = "clearAll"
    /\ lastInput' = NoInput
    /\ lastAlerts' = <<>>
    /\ lastCalls' = <<>>
    /\ UNCHANGED <<variant, open, isUploading, isDragging, requests, dispatched>>
    /\ totalSize' = totalSizeMemo(totalSize, files, files')
    /\ UNCHANGED <<localStorage, sessionVars>>

---------------------------------------------------------------------------
(* Dialog visibility (SideMenu) *)

\* SideMenu's "Upload PDFs" button: setOpenDialog(true)
openDialog ==
    /\ variant = "dialog"
    /\ ~open
    /\ open' = TRUE
    /\ lastEvent' = "openDialog"
    /\ lastInput' = NoInput
    /\ lastAlerts' = <<>>
    /\ lastCalls' = <<>>
    /\ UNCHANGED <<variant, files, isUploading, isDragging, requests, dispatched>>
    /\ totalSize' = totalSizeMemo(totalSize, files, files')
    /\ UNCHANGED <<localStorage, sessionVars>>

\* an onClose that resets the uploader: selection, uploading flag, request
onCloseResets ==
    /\ variant = "dialog"
    /\ open
    /\ open' = FALSE
    /\ files' = <<>>
    /\ isUploading' = FALSE
    /\ requests' = <<>>
    /\ lastEvent' = "onClose"
    /\ lastInput' = NoInput
    /\ lastAlerts' = <<>>
    /\ lastCalls' = <<[fn |-> "onClose", arg |-> "none"]>>
    /\ UNCHANGED <<variant, isDragging, dispatched>>
    /\ totalSize' = totalSizeMemo(totalSize, files, files')
    /\ UNCHANGED <<localStorage, sessionVars>>

\* Escape (listener installed only while open), backdrop mouse-down, close
\* button: onClose() = setOpenDialog(false)
onClose ==
    /\ variant = "dialog"
    /\ open
    /\ open' = FALSE
    /\ lastEvent' = "onClose"
    /\ lastInput' = NoInput
    /\ lastAlerts' = <<>>
    /\ lastCalls' = <<[fn |-> "onClose", arg |-> "none"]>>
    /\ UNCHANGED <<variant, files, isUploading, isDragging, requests, dispatched>>
    /\ totalSize' = totalSizeMemo(totalSize, files, files')
    /\ UNCHANGED <<localStorage, sessionVars>>

---------------------------------------------------------------------------
(* handleSendAll *)

\* handleSendAll guarding on the selection only
SendAllGuardIgnoresUploading(fs, uploading) == ~(Len(fs) = 0)

\* handleSendAll guarding on the uploading flag only
SendAllGuardIgnoresEmpty(fs, uploading) == ~uploading

\* the negation of  files.length === 0 || isUploading
SendAllGuard(fs, uploading) == ~(Len(fs) = 0 \/ uploading)

\* the parts appended under the field name "file"
FormDataFileField(fs) == [i \in DOMAIN fs |-> <<"file", fs[i]>>]

\* files.forEach((f) => formData.append("files", f))
FormData(fs) == [i \in DOMAIN fs |-> <<"files", fs[i]>>]

\* handleSendAll posting the form twice
FetchCallsTwice(fs) == <<[method |-> "POST", body |-> FormData(fs)],
                         [method |-> "POST", body |-> FormData(fs)]>>

\* the fetch calls one run of handleSendAll makes
FetchCalls(fs) == <<[method |-> "POST", body |-> FormData(fs)]>>

\* a handleSendAll call suspended at  await fetch(...)
Suspended(call) == [pc |-> "fetch", method |-> call.method, body |-> call.body,
                    status |-> 0]

handleSendAll ==
    /\ Rendered
    /\ IF SendAllGuard(files, isUploading)
       THEN /\ dispatched + Len(FetchCalls(files)) <= MaxSubmits
            /\ isUploading' = TRUE
            /\ requests' = requests \o
                   [i \in DOMAIN FetchCalls(files) |-> Suspended(FetchCalls(files)[i])]
            /\ dispatched' = dispatched + Len(FetchCalls(files))
       ELSE UNCHANGED <<isUploading, requests, dispatched>>
    /\ lastEvent' = "handleSendAll"
    /\ lastInput' = [NoInput EXCEPT !.guard = IF SendAllGuard(files, isUploading)
                                               THEN "passed" ELSE "returned"]
    /\ lastAlerts' = <<>>
    /\ lastCalls' = <<>>
    /\ UNCHANGED <<variant, open, files, isDragging>>
    /\ totalSize' = totalSizeMemo(totalSize, files, files')
    /\ UNCHANGED <<localStorage, sessionVars>>

---------------------------------------------------------------------------
(* What the network gives back *)

Statuses == {200, 401, 500}

NetworkError == [kind |-> "throw", status |-> 0]
Response(status) == [kind |-> "response", status |-> status]
Responses == {NetworkError} \cup {Response(s) : s \in Statuses}

\* Response.ok
ok(status) == status >= 200 /\ status <= 299

Bodies == {"json", "malformed", "missing"}

\* res.json(): rejects unless the body is well-formed JSON
resJson(body) == [throws |-> body # "json", value |-> "data"]

\* try { return await res.json() } catch { return null }
safeJson(body) == IF resJson(body).throws THEN "null" ELSE resJson(body).value

\* the onUpload prop: not passed, a function that returns, a function that throws
OnUploadProps == {"absent", "returns", "throws"}

\* the onUpload prop a component is mounted with: SideMenu passes the dialog
\* a function that logs and calls setRefreshToken, which returns; the inline
\* uploader takes whatever its parent passes
OnUploadProp(v) == IF v = "dialog" THEN {"returns"} ELSE OnUploadProps

---------------------------------------------------------------------------
(* localStorage and the credential kept in it *)

\* a JS string value, or null / undefined
Null == [isNull |-> TRUE, value |-> <<>>]
Str(s) == [isNull |-> FALSE, value |-> s]

\* `${v}`
TemplateString(v) == IF v.isNull THEN <<"null">> ELSE v.value

AccessToken  == <<"t", "1">>
RefreshToken == <<"r", "1">>

Storage(a, r) == [auth_token |-> a, refresh_token |-> r, chatMessages |-> Null]
Storages == {Storage(a, r) : a \in {Null, Str(AccessToken)},
                             r \in {Null, Str(RefreshToken)}}
\* the storage of a user who has logged in
LoggedIn == Storage(Str(AccessToken), Str(RefreshToken))

getItem(storage, key) == storage[key]
setItem(storage, key, value) == [storage EXCEPT ![key] = value]
removeItem(storage, key) == [storage EXCEPT ![key] = Null]

\* logOut: the two removeItem calls
logOutStorage(storage) ==
    removeItem(removeItem(storage, "auth_token"), "refresh_token")

\* logOut: setToken(null)
logOutToken == Null

\* the upload sent through fetchWithAuth: a 401 answer logs the user out
UploadFetchStorageWithAuth(storage, res) ==
    IF res.kind = "response" /\ res.status = 401 THEN logOutStorage(storage)
    ELSE storage

\* handleSendAll calls window.fetch itself: whatever the answer, nothing is
\* read from or written to localStorage
UploadFetchStorage(storage, res) == storage

---------------------------------------------------------------------------
(* The try / catch / finally of handleSendAll *)

\* err.message of the TypeError fetch rejects with
NetworkErrorMessage == <<"Failed to fetch">>
\* err.message of whatever onUpload threw
CallbackErrorMessage == <<"onUpload threw">>

\* the error text without the status
HttpErrorMessageNoStatus(status) == <<"Upload failed">>

\* `Upload failed with status ${res.status}`
HttpErrorMessage(status) == <<"Upload failed with status ">> \o NumStr(status)

SuccessAlert == Alert("success", <<>>)
\* alert(`An error occurred during upload: ${err.message}`)
ErrorAlert(message) == Alert("error", message)

\* handleSendAll without the  if (!res.ok) throw
FetchThrowsOnlyOnNetworkError(res) == res.kind = "throw"

\* does control reach the catch block once fetch has settled with res
FetchThrows(res) == res.kind = "throw" \/ ~ok(res.status)

\* err.message in that catch block
FetchErrorMessage(res) ==
    IF res.kind = "throw" THEN NetworkErrorMessage ELSE HttpErrorMessage(res.status)

\* catch (err) { console.error(...); alert(...) }
CatchAlerts(message) == <<ErrorAlert(message)>>

\* setIsUploading(false) as the last statement of the try block
UploadingAfterSettleNoFinally(threw) == threw

\* finally { setIsUploading(false) }: the flag once the handler has ended,
\* whether or not the try block threw
UploadingAfterSettle(threw) == FALSE

Without(q, i) == [k \in 1..(Len(q) - 1) |-> IF k < i THEN q[k] ELSE q[k + 1]]

\* the continuation of  await fetch(...)
fetchSettles ==
    \E i \in DOMAIN requests : \E res \in Responses :
        /\ requests[i].pc = "fetch"
        /\ IF FetchThrows(res)
           THEN /\ lastAlerts' = CatchAlerts(FetchErrorMessage(res))
                /\ isUploading' = UploadingAfterSettle(TRUE)
                /\ requests' = Without(requests, i)
           ELSE /\ lastAlerts' = <<>>
                /\ requests' = [requests EXCEPT ![i].pc = "json", ![i].status = res.status]
                /\ UNCHANGED isUploading
        /\ lastEvent' = "fetch"
        /\ lastInput' = [NoInput EXCEPT !.res = res.kind, !.status = res.status]
        /\ lastCalls' = <<>>
        /\ UNCHANGED <<variant, open, files, isDragging, dispatched>>
        /\ totalSize' = totalSizeMemo(totalSize, files, files')
        /\ localStorage' = UploadFetchStorage(localStorage, res)
        /\ UNCHANGED sessionVars

OnUploadCall(data) == [fn |-> "onUpload", arg |-> data]
OnCloseCall == [fn |-> "onClose", arg |-> "none"]

\* the try block of the inline uploader in both components: without the
\* onClose && onClose() line
AfterJsonNeverCloses(v, data, onUpload) ==
    IF onUpload = "throws"
    THEN [alerts  |-> <<SuccessAlert>> \o CatchAlerts(CallbackErrorMessage),
          calls   |-> <<OnUploadCall(data)>>,
          cleared |-> FALSE,
          closed  |-> FALSE,
          threw   |-> TRUE]
    ELSE [alerts  |-> <<SuccessAlert>>,
          calls   |-> (IF onUpload = "absent" THEN <<>> ELSE <<OnUploadCall(data)>>),
          cleared |-> TRUE,
          closed  |-> FALSE,
          threw   |-> FALSE]

\* the statements of the try block after  const data = await safeJson(res):
\* alert, onUpload && onUpload(data), clearAll(), (dialog) onClose && onClose();
\* then catch if one of them threw
AfterJson(v, data, onUpload) ==
    IF onUpload = "throws"
    THEN [alerts  |-> <<SuccessAlert>> \o CatchAlerts(CallbackErrorMessage),
          calls   |-> <<OnUploadCall(data)>>,
          cleared |-> FALSE,
          closed  |-> FALSE,
          threw   |-> TRUE]
    ELSE [alerts  |-> <<SuccessAlert>>,
          calls   |-> (IF onUpload = "absent" THEN <<>> ELSE <<OnUploadCall(data)>>)
                      \o (IF v = "dialog" THEN <<OnCloseCall>> ELSE <<>>),
          cleared |-> TRUE,
          closed  |-> v = "dialog",
          threw   |-> FALSE]

\* the continuation of  await safeJson(res)
safeJsonSettles ==
    \E i \in DOMAIN requests : \E body \in Bodies : \E onUpload \in OnUploadProp(variant) :
        LET after == AfterJson(variant, safeJson(body), onUpload)
        IN  /\ requests[i].pc = "json"
            /\ lastAlerts' = after.alerts
            /\ lastCalls' = after.calls
            /\ files' = IF after.cleared THEN <<>> ELSE files
            /\ open' = IF after.closed THEN FALSE ELSE open
            /\ isUploading' = UploadingAfterSettle(after.threw)
            /\ requests' = Without(requests, i)
            /\ lastEvent' = "safeJson"
            /\ lastInput' = [NoInput EXCEPT !.res = "response",
                                            !.status = requests[i].status,
                                            !.body = body, !.onUpload = onUpload]
            /\ UNCHANGED <<variant, isDragging, dispatched>>
            /\ totalSize' = totalSizeMemo(totalSize, files, files')
            /\ UNCHANGED <<localStorage, sessionVars>>

---------------------------------------------------------------------------
(* useFetch: fetchWithAuth *)

\* a JS object with string values as the sequence of its [key, value]
\* entries; { ...obj, key: value }
ObjectSet(obj, key, value) == MapSet(obj, key, value)
ObjectHas(obj, key) == MapHas(obj, key)
\* obj[key]: undefined when obj has no such entry
ObjectGet(obj, key) ==
    IF ObjectHas(obj, key)
    THEN obj[CHOOSE i \in DOMAIN obj : obj[i][1] = key][2]
    ELSE Null

BasicValue == <<"Basic x">>
\* the headers a caller of fetchWithAuth passes in options.headers
CallerHeaders ==
    {<<>>,
     <<<<"Content-Type", <<"application/json">>>>>>,
     <<<<"Authorization", BasicValue>>>>,
     <<<<"Authorization", BasicValue>>, <<"Accept", <<"*/*">>>>>>,
     <<<<"authorization", BasicValue>>>>}

\* the options argument: method and body may be left out
Options(method, body, headers) ==
    [method |-> method, body |-> body, headers |-> headers]
CallerOptions ==
    {Options(mb[1], mb[2], h) :
        mb \in {<<Null, Null>>, <<Str(<<"POST">>), Str(<<"{}">>)>>},
        h \in CallerHeaders}

\* `Bearer ${token}`
BearerValue(token) == <<"Bearer ">> \o TemplateString(token)

\* the headers object with the caller's entries spread after the bearer one
fetchWithAuthHeadersCallerWins(options, token) ==
    IF ObjectHas(options.headers, "Authorization") THEN options.headers
    ELSE <<<<"Authorization", BearerValue(token)>>>> \o options.headers

\* const headers = { ...options.headers, "Authorization": `Bearer ${token}` }
fetchWithAuthHeaders(options, token) ==
    ObjectSet(options.headers, "Authorization", BearerValue(token))

\* { ...options, headers }: the second argument of fetch
fetchWithAuthInit(options, token) ==
    [options EXCEPT !.headers = fetchWithAuthHeaders(options, token)]

\* what fetchWithAuth returns: null, or the response
NullResult == [kind |-> "null", status |-> 0]

\* a classification that returns the 401 response to the caller
fetchWithAuthClass401Returned(res) ==
    IF res.kind = "throw" THEN "catch" ELSE "return"

\* which branch of fetchWithAuth a settled fetch takes
fetchWithAuthClass(res) ==
    IF res.kind = "throw" THEN "catch"
    ELSE IF res.status = 401 THEN "logOut"
    ELSE "return"

\* the value the promise fetchWithAuth returns is fulfilled with
fetchWithAuthResult(res) ==
    IF fetchWithAuthClass(res) = "return" THEN res ELSE NullResult

NoCall == Options(Null, Null, <<>>)

\* useFetch after its first render: token is useState(getItem("auth_token"))
InitUseFetch(storage) ==
    [token   |-> getItem(storage, "auth_token"),
     calls   |-> <<>>,
     event   |-> "mount",
     options |-> NoCall,
     init    |-> NoCall,
     res     |-> NullResult,
     result  |-> NullResult]

\* fetchWithAuth(url, options) up to  await fetch(url, { ...options, headers })
fetchWithAuth ==
    /\ Len(useFetch.calls) < MaxCalls
    /\ \E options \in CallerOptions :
        useFetch' = [useFetch EXCEPT
            !.calls   = Append(@, fetchWithAuthInit(options, useFetch.token)),
            !.event   = "fetchWithAuth",
            !.options = options,
            !.init    = fetchWithAuthInit(options, useFetch.token),
            !.res     = NullResult,
            !.result  = NullResult]
    /\ UNCHANGED <<uploaderVars, localStorage, authModal, chatbot>>

\* the continuation of that await: the 401 test, the return, the catch
fetchWithAuthSettles ==
    \E i \in DOMAIN useFetch.calls : \E res \in Responses :
        /\ localStorage' = IF fetchWithAuthClass(res) = "logOut"
                           THEN logOutStorage(localStorage) ELSE localStorage
        /\ useFetch' = [useFetch EXCEPT
               !.token   = IF fetchWithAuthClass(res) = "logOut"
                           THEN logOutToken ELSE @,
               !.calls   = Without(@, i),
               !.event   = "settled",
               !.options = NoCall,
               !.init    = useFetch.calls[i],
               !.res     = res,
               !.result  = fetchWithAuthResult(res)]
        /\ UNCHANGED <<uploaderVars, authModal, chatbot>>

---------------------------------------------------------------------------
(* AuthModal (mounted by Header) *)

Passwords == {<<"password1">>, <<"password2">>}

\* the text of an error response: empty, or a message
TextBodies == {<<>>, <<"detail">>}

\* the JSON of a /token response: both tokens, the access token alone, an
\* object without either, or a body that does not parse
TokenData(a, r) == [parses |-> TRUE, access_token |-> a, refresh_token |-> r]
Unparsable == [parses |-> FALSE, access_token |-> Null, refresh_token |-> Null]
TokenBodies == {TokenData(Str(AccessToken), Str(RefreshToken)),
                TokenData(Str(AccessToken), Null),
                TokenData(Null, Null),
                Unparsable}

\* String(v) as localStorage.setItem stores it
StoredString(v) == IF v.isNull THEN Str(<<"undefined">>) ELSE v

\* the onSuccess prop, as the onUpload prop
OnSuccessProps == {"absent", "returns", "throws"}

\* a request line of handleSubmit
Register == "POST /register"
Token == "POST /token"

\* err.message || "Something went wrong."
PasswordsDoNotMatch == <<"Passwords do not match.">>
SignUpFailed(text) == IF text = <<>> THEN <<"Sign up failed.">> ELSE text
AutoLoginFailed == <<"Account created, but auto-login failed.">>
InvalidCredentials(text) == IF text = <<>> THEN <<"Invalid credentials.">> ELSE text
JsonErrorMessage == <<"Unexpected token">>
OnSuccessErrorMessage == <<"onSuccess threw">>

InitAuthModal ==
    [isOpen     |-> FALSE,
     mode       |-> "login",
     password   |-> <<>>,
     confirm    |-> <<>>,
     submitting |-> FALSE,
     error      |-> <<>>,
     pc         |-> "none",      \* where the handleSubmit call is suspended
     pcMode     |-> "login",     \* the mode that call captured
     status     |-> 0,           \* status of the /token response being read
     event      |-> "mount",
     res        |-> NullResult,  \* the response the step just taken was given
     sent       |-> <<>>,        \* requests sent by the step just taken
     calls      |-> <<>>]        \* props called by the step just taken

\* what a step of AuthModal that sends and calls nothing leaves behind
Quiet(m, event) == [m EXCEPT !.event = event, !.res = NullResult,
                             !.sent = <<>>, !.calls = <<>>]

\* Header: the Login / Sign Up button, setOpen(true)
openAuthModal ==
    /\ ~authModal.isOpen
    /\ authModal' = [Quiet(authModal, "open") EXCEPT !.isOpen = TRUE]
    /\ UNCHANGED <<uploaderVars, localStorage, useFetch, chatbot>>

\* Escape, backdrop, close button: onClose() = setOpen(false)
closeAuthModal ==
    /\ authModal.isOpen
    /\ authModal' = [Quiet(authModal, "close") EXCEPT !.isOpen = FALSE]
    /\ UNCHANGED <<uploaderVars, localStorage, useFetch, chatbot>>

\* the password input; it is disabled while submitting
setPassword ==
    /\ authModal.isOpen /\ ~authModal.submitting
    /\ \E v \in Passwords :
        authModal' = [Quiet(authModal, "setPassword") EXCEPT !.password = v]
    /\ UNCHANGED <<uploaderVars, localStorage, useFetch, chatbot>>

\* the confirm input, rendered in sign-up mode; disabled while submitting
setConfirm ==
    /\ authModal.isOpen /\ ~authModal.submitting /\ authModal.mode = "signup"
    /\ \E v \in Passwords :
        authModal' = [Quiet(authModal, "setConfirm") EXCEPT !.confirm = v]
    /\ UNCHANGED <<uploaderVars, localStorage, useFetch, chatbot>>

switchMode ==
    /\ authModal.isOpen
    /\ authModal' = [Quiet(authModal, "switchMode") EXCEPT
           !.mode     = IF @ = "login" THEN "signup" ELSE "login",
           !.error    = <<>>,
           !.password = <<>>,
           !.confirm  = <<>>]
    /\ UNCHANGED <<uploaderVars, localStorage, useFetch, chatbot>>

\* if (mode === "signup") { if (password !== confirm) throw ... }
SubmitThrows(mode, password, confirm) == mode = "signup" /\ password # confirm

\* the first request of handleSubmit
FirstRequest(mode) == IF mode = "signup" THEN Register ELSE Token

\* the form is submitted: the submit button and the inputs are disabled while
\* submitting, and the required inputs must be filled in
handleSubmit ==
    /\ authModal.isOpen /\ ~authModal.submitting
    /\ authModal.password # <<>>
    /\ authModal.mode = "signup" => authModal.confirm # <<>>
    /\ authModal' =
         IF SubmitThrows(authModal.mode, authModal.password, authModal.confirm)
         THEN [Quiet(authModal, "handleSubmit") EXCEPT
                                !.submitting = FALSE,
                                !.error = PasswordsDoNotMatch]
         ELSE [Quiet(authModal, "handleSubmit") EXCEPT
                                !.submitting = TRUE,
                                !.error = <<>>,
                                !.pc = IF authModal.mode = "signup"
                                       THEN "register" ELSE "token",
                                !.pcMode = authModal.mode,
                                !.sent = <<FirstRequest(authModal.mode)>>]
    /\ UNCHANGED <<uploaderVars, localStorage, useFetch, chatbot>>

\* handleSubmit without the  if (!res.ok) throw  tests
SubmitFetchThrowsOnlyOnNetworkError(res) == res.kind = "throw"

\* does control reach the catch block once a fetch of handleSubmit has
\* settled with res
SubmitFetchThrows(res) == res.kind = "throw" \/ ~ok(res.status)

\* catch (err) { setError(...) } finally { setSubmitting(false) }
Caught(m, event, res, message) ==
    [m EXCEPT !.submitting = FALSE, !.error = message, !.pc = "none",
              !.event = event, !.res = res, !.sent = <<>>, !.calls = <<>>]

\* the continuation of  await fetch(`${API_URL}/register`, ...), with the
\* await res.text() of the error branch
registerSettles ==
    /\ authModal.pc = "register"
    /\ \E res \in Responses : \E text \in TextBodies :
        authModal' =
          IF SubmitFetchThrows(res)
          THEN Caught(authModal, "register", res,
                      IF res.kind = "throw" THEN NetworkErrorMessage
                      ELSE SignUpFailed(text))
          ELSE [authModal EXCEPT !.pc = "token", !.event = "register",
                                 !.res = res,
                                 !.sent = <<Token>>, !.calls = <<>>]
    /\ UNCHANGED <<uploaderVars, localStorage, useFetch, chatbot>>

\* the continuation of  await fetch(`${API_URL}/token`, ...), with the
\* await res.text() of the login error branch
tokenSettles ==
    /\ authModal.pc = "token"
    /\ \E res \in Responses : \E text \in TextBodies :
        authModal' =
          IF SubmitFetchThrows(res)
          THEN Caught(authModal, "token", res,
                      IF res.kind = "throw" THEN NetworkErrorMessage
                      ELSE IF authModal.pcMode = "signup" THEN AutoLoginFailed
                      ELSE InvalidCredentials(text))
          ELSE [authModal EXCEPT !.pc = "json", !.status = res.status,
                                 !.event = "token", !.res = res,
                                 !.sent = <<>>, !.calls = <<>>]
    /\ UNCHANGED <<uploaderVars, localStorage, useFetch, chatbot>>

\* localStorage.setItem("auth_token", data.access_token);
\* if (data.refresh_token) localStorage.setItem("refresh_token", ...)
StoreTokens(storage, data) ==
    LET s1 == setItem(storage, "auth_token", StoredString(data.access_token))
    IN  IF data.refresh_token.isNull THEN s1
        ELSE setItem(s1, "refresh_token", data.refresh_token)

OnSuccessCall == [fn |-> "onSuccess", arg |-> "data"]

\* the continuation of  await res.json()  of the /token response:
\* setItem, onSuccess?.(...), onClose(), then catch and finally
tokenJsonSettles ==
    /\ authModal.pc = "json"
    /\ \E data \in TokenBodies : \E onSuccess \in OnSuccessProps :
        IF ~data.parses
        THEN /\ authModal' = Caught(authModal, "json",
                                    Response(authModal.status), JsonErrorMessage)
             /\ UNCHANGED localStorage
        ELSE /\ localStorage' = StoreTokens(localStorage, data)
             /\ authModal' =
                  IF onSuccess = "throws"
                  THEN [Caught(authModal, "json", Response(authModal.status),
                               OnSuccessErrorMessage)
                            EXCEPT !.calls = <<OnSuccessCall>>]
                  ELSE [authModal EXCEPT
                            !.submitting = FALSE, !.pc = "none",
                            !.isOpen = FALSE,
                            !.event = "json",
                            !.res = Response(authModal.status),
                            !.sent = <<>>,
                            !.calls = (IF onSuccess = "absent" THEN <<>>
                                       ELSE <<OnSuccessCall>>)
                                      \o <<OnCloseCall>>]
    /\ UNCHANGED <<uploaderVars, useFetch, chatbot>>

---------------------------------------------------------------------------
(* Chatbot *)

RECURSIVE trimStart(_)
trimStart(s) == IF s # <<>> /\ Head(s) = " " THEN trimStart(Tail(s)) ELSE s

RECURSIVE trimEnd(_)
trimEnd(s) == IF s # <<>> /\ s[Len(s)] = " "
              THEN trimEnd(SubSeq(s, 1, Len(s) - 1)) ELSE s

\* String.prototype.trim on texts whose only white space is the blank
trim(s) == trimEnd(trimStart(s))

\* what the user types into the chat input
ChatInputs == {<<>>, <<" ">>, <<"h", "i">>, <<" ", "y", "o">>}

\* { sender, text }: a message without the sources property
Message(sender, text) == [sender |-> sender, text |-> text, sources |-> Null]

\* the JSON of a /chat response: an answer with its sources, an object
\* without these fields (an error report), or a body that does not parse
ChatData(response, sources) ==
    [parses |-> TRUE, response |-> response, sources |-> sources]
ChatUnparsable == [parses |-> FALSE, response |-> Null, sources |-> Null]
ChatBodies == {ChatData(Str(<<"answer">>), Str(<<"doc.pdf", "1">>)),
               ChatData(Null, Null),
               ChatUnparsable}

\* { sender: "bot", text: data.response, sources: data.sources }
BotMessage(data) ==
    [sender |-> "bot", text |-> data.response, sources |-> data.sources]

\* JSON.stringify of one message: the object's entries in order, a property
\* whose value is undefined left out
StringifyMessage(m) ==
    SelectSeq(<<<<"sender", Str(<<m.sender>>)>>,
                <<"text", m.text>>,
                <<"sources", m.sources>>>>,
              LAMBDA e : ~e[2].isNull)

\* JSON.stringify(messages)
JSONstringify(messages) ==
    [i \in DOMAIN messages |-> StringifyMessage(messages[i])]

\* one element of JSON.parse(text), as the component reads it: a property
\* that is not there reads as undefined
ParseMessage(obj) ==
    [sender  |-> ObjectGet(obj, "sender").value[1],
     text    |-> ObjectGet(obj, "text"),
     sources |-> ObjectGet(obj, "sources")]

\* JSON.parse(text)
JSONparse(text) == [i \in DOMAIN text |-> ParseMessage(text[i])]

\* localStorage.chatMessages as earlier sessions of the component leave it:
\* no entry, or a history that is not empty
SavedHistories ==
    {Null,
     Str(JSONstringify(<<Message("user", Str(<<"h", "i">>))>>)),
     Str(JSONstringify(<<Message("user", Str(<<"h", "i">>)),
                         BotMessage(ChatData(Str(<<"answer">>),
                                             Str(<<"doc.pdf", "1">>)))>>))}

\* a load effect that never calls setMessages
loadEffectIgnoresSaved(storage) == <<>>

\* the first effect: messages after  if (savedMessages) setMessages(savedMessages)
\* on the initial empty list
loadEffect(storage) ==
    IF getItem(storage, "chatMessages").isNull THEN <<>>
    ELSE JSONparse(getItem(storage, "chatMessages").value)

\* the second effect, run after a render whose messages differ from those of
\* the render before (run after the first render as well)
saveEffect(storage, messages) ==
    IF Len(messages) > 0
    THEN setItem(storage, "chatMessages", Str(JSONstringify(messages)))
    ELSE storage

\* useEffect(..., [messages]) at a render
saveEffectAtRender(storage, prevMessages, nextMessages) ==
    IF nextMessages = prevMessages THEN storage
    ELSE saveEffect(storage, nextMessages)

\* the component at its first render, its effects not yet run
InitChatbot ==
    [effects  |-> "pending",
     messages |-> <<>>,
     input    |-> <<>>,
     loading  |-> FALSE,
     calls    |-> <<>>,       \* suspended handleSend calls
     sends    |-> 0,          \* fetch("/chat") calls made so far
     event    |-> "mount",
     guard    |-> "none",
     res      |-> NullResult,
     data     |-> ChatUnparsable]

\* the two effects after the first render, and the save effect after the
\* render that setMessages(savedMessages) causes
mountEffects ==
    /\ chatbot.effects = "pending"
    /\ chatbot' = [chatbot EXCEPT !.effects = "done",
                                  !.messages = loadEffect(localStorage),
                                  !.event = "mountEffects",
                                  !.guard = "none", !.res = NullResult,
                                  !.data = ChatUnparsable]
    /\ localStorage' = saveEffect(saveEffect(localStorage, chatbot.messages),
                                  chatbot'.messages)
    /\ UNCHANGED <<uploaderVars, useFetch, authModal>>

\* a source link: navigate("/view-pdf?...") unmounts the component, and the
\* way back to "/" renders a new one; a handleSend call still suspended
\* then sets the state of the component that is gone
handleSourceClick ==
    /\ chatbot.effects = "done"
    /\ \E i \in DOMAIN chatbot.messages :
           chatbot.messages[i].sender = "bot" /\ ~chatbot.messages[i].sources.isNull
    /\ chatbot' = [InitChatbot EXCEPT !.sends = chatbot.sends,
                                      !.event = "handleSourceClick"]
    /\ UNCHANGED <<uploaderVars, localStorage, useFetch, authModal>>

\* onChange of the input; it is not disabled while loading
setInput ==
    /\ chatbot.effects = "done"
    /\ \E v \in ChatInputs :
        chatbot' = [chatbot EXCEPT !.input = v, !.event = "setInput",
                                   !.guard = "none", !.res = NullResult,
                                   !.data = ChatUnparsable]
    /\ UNCHANGED <<uploaderVars, localStorage, useFetch, authModal>>

\* the negation of  !input.trim() || loading
SendGuard(input, loading) == ~(trim(input) = <<>> \/ loading)

\* JSON.stringify([...messages.map(...), { sender: "user", text: input }])
ChatRequestBody(messages, input) ==
    [i \in DOMAIN messages |-> Message(messages[i].sender, messages[i].text)]
        \o <<Message("user", Str(input))>>

\* Enter in the input or the send button: handleSend up to  await fetch(...)
handleSend ==
    /\ chatbot.effects = "done"
    /\ IF SendGuard(chatbot.input, chatbot.loading)
       THEN /\ chatbot.sends < MaxSends
            /\ chatbot' = [chatbot EXCEPT
                   !.loading  = TRUE,
                   !.messages = Append(@, Message("user", Str(chatbot.input))),
                   !.calls    = Append(@, [pc |-> "fetch", status |-> 0,
                                           body |-> ChatRequestBody(chatbot.messages,
                                                                    chatbot.input)]),
                   !.sends    = @ + 1,
                   !.event    = "handleSend",
                   !.guard    = "passed",
                   !.res      = NullResult,
                   !.data     = ChatUnparsable]
       ELSE chatbot' = [chatbot EXCEPT !.event = "handleSend",
                                       !.guard = "returned",
                                       !.res = NullResult,
                                       !.data = ChatUnparsable]
    /\ localStorage' = saveEffectAtRender(localStorage, chatbot.messages,
                                          chatbot'.messages)
    /\ UNCHANGED <<uploaderVars, useFetch, authModal>>

\* finally { setLoading(false) }
LoadingAfterSettle(threw) == FALSE

\* the continuation of  await fetch("http://localhost:8000/chat", ...): the
\* handler does not look at the status
chatFetchSettles ==
    \E i \in DOMAIN chatbot.calls : \E res \in Responses :
        /\ chatbot.calls[i].pc = "fetch"
        /\ chatbot' =
             IF res.kind = "throw"
             THEN [chatbot EXCEPT !.loading = LoadingAfterSettle(TRUE),
                                  !.calls = Without(@, i),
                                  !.event = "fetch", !.guard = "none",
                                  !.res = res, !.data = ChatUnparsable]
             ELSE [chatbot EXCEPT !.calls[i].pc = "json",
                                  !.calls[i].status = res.status,
                                  !.event = "fetch", !.guard = "none",
                                  !.res = res, !.data = ChatUnparsable]
        /\ UNCHANGED <<uploaderVars, localStorage, useFetch, authModal>>

\* the continuation of  await response.json(): the bot message and
\* setInput(""), or the catch block; then finally
chatJsonSettles ==
    \E i \in DOMAIN chatbot.calls : \E data \in ChatBodies :
        /\ chatbot.calls[i].pc = "json"
        /\ chatbot' =
             IF ~data.parses
             THEN [chatbot EXCEPT !.loading = LoadingAfterSettle(TRUE),
                                  !.calls = Without(@, i),
                                  !.event = "json", !.guard = "none",
                                  !.res = Response(chatbot.calls[i].status),
                                  !.data = data]
             ELSE [chatbot EXCEPT !.messages = Append(@, BotMessage(data)),
                                  !.input = <<>>,
                                  !.loading = LoadingAfterSettle(FALSE),
                                  !.calls = Without(@, i),
                                  !.event = "json", !.guard = "none",
                                  !.res = Response(chatbot.calls[i].status),
                                  !.data = data]
        /\ localStorage' = saveEffectAtRender(localStorage, chatbot.messages,
                                              chatbot'.messages)
        /\ UNCHANGED <<uploaderVars, useFetch, authModal>>

---------------------------------------------------------------------------
(* The components after mounting *)

\* the uploader followed on its own: a logged-in user, the other components
\* at rest
Init ==
    /\ InitUploader
    /\ localStorage = LoggedIn
    /\ useFetch = InitUseFetch(localStorage)
    /\ authModal = InitAuthModal
    /\ chatbot = InitChatbot

\* any content of localStorage at start-up
InitAnyStorage ==
    /\ InitUploader
    /\ localStorage \in Storages
    /\ useFetch = InitUseFetch(localStorage)
    /\ authModal = InitAuthModal
    /\ chatbot = InitChatbot

\* the chat component at its first render, over what an earlier session left
\* in localStorage
InitSavedChat ==
    /\ InitUploader
    /\ localStorage \in {[LoggedIn EXCEPT !.chatMessages = h] : h \in SavedHistories}
    /\ useFetch = InitUseFetch(localStorage)
    /\ authModal = InitAuthModal
    /\ chatbot = InitChatbot

---------------------------------------------------------------------------

Next ==
    \/ handleFileChange(SessionFileLists)
    \/ handleDragOver
    \/ handleDragLeave
    \/ handleDrop(SessionFileLists)
    \/ removeFile
    \/ clearAll
    \/ openDialog
    \/ onClose
    \/ handleSendAll
    \/ fetchSettles
    \/ safeJsonSettles

Spec == Init /\ [][Next]_vars

\* the selection store alone; a drop brings any file list of up to MaxBatch
\* files (both handlers hand their list to the same addFiles)
NextSelection ==
    \/ handleFileChange(SelectionFileLists)
    \/ handleDrop(FileLists)
    \/ removeFile
    \/ clearAll

SpecSelection == Init /\ [][NextSelection]_vars

\* every pending await is eventually resumed: the request settles and the
\* body read ends
SpecSettling == Spec /\ WF_vars(fetchSettles) /\ WF_vars(safeJsonSettles)

\* the useFetch hook alone
NextUseFetch ==
    \/ fetchWithAuth
    \/ fetchWithAuthSettles

SpecUseFetch == InitAnyStorage /\ [][NextUseFetch]_vars

\* the login / sign-up modal alone
NextAuthModal ==
    \/ openAuthModal
    \/ closeAuthModal
    \/ setPassword
    \/ setConfirm
    \/ switchMode
    \/ handleSubmit
    \/ registerSettles
    \/ tokenSettles
    \/ tokenJsonSettles

SpecAuthModal == InitAnyStorage /\ [][NextAuthModal]_vars

\* the chat component alone
NextChatbot ==
    \/ mountEffects
    \/ handleSourceClick
    \/ setInput
    \/ handleSend
    \/ chatFetchSettles
    \/ chatJsonSettles

SpecChatbot == InitSavedChat /\ [][NextChatbot]_vars

---------------------------------------------------------------------------
(* Notions the properties are stated with *)

\* the step just taken was a run of handleSendAll / a settled fetch / a parsed body
SubmitStep == lastEvent = "handleSendAll"
FetchStep  == lastEvent = "fetch"
JsonStep   == lastEvent = "safeJson"
AddStep    == lastEvent \in {"handleFileChange", "handleDrop"}

\* the fetch of the step just taken failed: transport error or status outside 2xx
HttpFailed == FetchStep /\ lastInput.res = "response"
                        /\ (lastInput.status < 200 \/ lastInput.status > 299)
TransportFailed == FetchStep /\ lastInput.res = "throw"
Failed == HttpFailed \/ TransportFailed

AlertsOfKind(kind) == SelectSeq(lastAlerts, LAMBDA a : a.kind = kind)
OnUploadCalls == SelectSeq(lastCalls, LAMBDA c : c.fn = "onUpload")

DigitValue(c) == (CHOOSE d \in 1..10 : DigitChars[d] = c) - 1
IsDigit(c) == \E d \in 1..10 : DigitChars[d] = c

RECURSIVE ParseNum(_)
ParseNum(ds) == IF ds = <<>> THEN 0
                ELSE 10 * ParseNum(SubSeq(ds, 1, Len(ds) - 1)) + DigitValue(ds[Len(ds)])

\* the HTTP status a failure report shows to the user, -1 when it shows none
StatusShown(alert) ==
    LET d == alert.detail
    IN  IF /\ Len(d) >= 2
           /\ d[1] = "Upload failed with status "
           /\ \A k \in 2..Len(d) : IsDigit(d[k])
        THEN ParseNum(Tail(d))
        ELSE -1

---------------------------------------------------------------------------
(* C1: at most one upload request is outstanding at any time; a second     *)
(* handleSendAll arriving while the first request has no outcome yet       *)
(* dispatches nothing, so exactly one request has been dispatched.         *)
C1_AtMostOneOutstanding == Len(requests) <= 1

C1_Witness ==
    /\ SubmitStep
    /\ lastInput.guard = "returned"
    /\ Len(requests) = 1
    /\ dispatched = 1

(* C2: handleSendAll invoked with an empty selection, or while uploading,  *)
(* dispatches no request and leaves files, isUploading and isDragging      *)
(* unchanged.                                                              *)
C2_BlockedSubmitIsNoop ==
    [][(SubmitStep' /\ (Len(files) = 0 \/ isUploading))
          => UNCHANGED <<files, isUploading, isDragging, requests, dispatched>>]_vars

C2_Witness ==
    /\ SubmitStep
    /\ lastInput.guard = "returned"
    /\ files = <<>>
    /\ ~isUploading
    /\ isDragging

(* C3: once a response with a success status has been processed, the       *)
(* selection is empty and the session is no longer uploading.              *)
C3_SuccessClearsSelection ==
    JsonStep => (files = <<>> /\ ~isUploading)

(* C4 as claimed: a failed request leaves the selection as it was, does    *)
(* not call onUpload, and returns the session to Idle (neither uploading   *)
(* nor dragging).                                                          *)
C4_FailureReturnsToIdle ==
    [][Failed' => /\ files' = files
                  /\ OnUploadCalls' = <<>>
                  /\ ~isUploading'
                  /\ ~isDragging']_vars

(* C4 amended: a failed request leaves the selection as it was, does not   *)
(* call onUpload, and resets the uploading flag; the dragging flag keeps   *)
(* its value, so the session is Idle unless a drag is in progress.         *)
C4_FailureKeepsSelection ==
    [][Failed' => /\ files' = files
                  /\ OnUploadCalls' = <<>>
                  /\ isUploading /\ ~isUploading'
                  /\ isDragging' = isDragging]_vars

C4_Witness ==
    /\ HttpFailed
    /\ Len(files) = 2
    /\ ~isUploading
    /\ isDragging

(* C5: the failure report of a response with non-success status s shows    *)
(* exactly s, and the report of a transport failure shows no status.       *)
C5_StatusPreserved ==
    /\ HttpFailed => /\ Len(lastAlerts) = 1
                     /\ lastAlerts[1].kind = "error"
                     /\ StatusShown(lastAlerts[1]) = lastInput.status
    /\ TransportFailed => /\ Len(lastAlerts) = 1
                          /\ lastAlerts[1].kind = "error"
                          /\ StatusShown(lastAlerts[1]) = -1

C5_Witness ==
    /\ HttpFailed
    /\ lastInput.status = 500
    /\ Len(lastAlerts) = 1
    /\ StatusShown(lastAlerts[1]) = 500

(* C6: a success status with a missing or malformed body is a Success:     *)
(* onUpload gets null, the confirmation is the only alert, the selection   *)
(* is cleared.                                                             *)
C6_UnparsableBodyIsSuccess ==
    (JsonStep /\ lastInput.body \in {"missing", "malformed"})
        => /\ \A k \in DOMAIN OnUploadCalls : OnUploadCalls[k].arg = "null"
           /\ lastAlerts = <<SuccessAlert>>
           /\ files = <<>>

(* C7: every attempt that dispatched a request ends with exactly one       *)
(* outcome alert: the confirmation after a success status, the failure     *)
(* report after a failure, never both.                                     *)
C7_ExactlyOneNotification ==
    /\ JsonStep => (Len(AlertsOfKind("success")) = 1 /\ AlertsOfKind("error") = <<>>)
    /\ Failed => (Len(AlertsOfKind("error")) = 1 /\ AlertsOfKind("success") = <<>>)

(* C8: a step dispatches a request only if it is a handleSendAll that      *)
(* passed its guard, and then it dispatches exactly one: nothing is        *)
(* dispatched by an outcome, so a failure is never retried automatically.  *)
C8_OneRequestPerSubmit ==
    [][dispatched' - dispatched =
          IF SubmitStep' /\ Len(files) > 0 /\ ~isUploading THEN 1 ELSE 0]_vars

C8_Witness ==
    /\ SubmitStep
    /\ lastInput.guard = "passed"
    /\ dispatched = 2
    /\ Len(requests) = 1

---------------------------------------------------------------------------
\* the first element of q with identity id
FirstWithIdentity(q, id) ==
    q[CHOOSE i \in DOMAIN q :
          /\ Identity(q[i]) = id
          /\ \A j \in 1..(i - 1) : Identity(q[j]) # id]

NoDuplicateIdentity ==
    \A i, j \in DOMAIN files : i # j => Identity(files[i]) # Identity(files[j])

\* every entry after addFiles is the first reference with its identity among
\* the previous entries followed by the accepted incoming files
FirstSeenKept ==
    AddStep' => \A k \in DOMAIN files' :
        files'[k] = FirstWithIdentity(files \o filtered(lastInput'.fileList.items),
                                      Identity(files'[k]))

(* C9: no two entries of the selection have the same identity (name, size, *)
(* lastModified); of several references with one identity the first seen   *)
(* is the entry kept.                                                      *)
C9_UniqueIdentityFirstSeen ==
    []NoDuplicateIdentity /\ [][FirstSeenKept]_vars

C9_Witness ==
    /\ AddStep
    /\ \E k \in DOMAIN files : \E j \in DOMAIN lastInput.fileList.items :
           /\ Identity(lastInput.fileList.items[j]) = Identity(files[k])
           /\ lastInput.fileList.items[j] # files[k]

(* C10: addFiles is idempotent: applying it again with the same file list  *)
(* to the selection it produced gives that selection back.                 *)
C10_AddFilesIdempotent ==
    AddStep => addFilesFiles(files, lastInput.fileList) = files

C10_Witness ==
    /\ AddStep
    /\ Len(lastInput.fileList.items) = 2
    /\ Len(files) = 3
    /\ files[3] = lastInput.fileList.items[2]

---------------------------------------------------------------------------
(* Notions of the selection properties *)

RemoveStep == lastEvent = "removeFile"

\* the declared type is application/pdf, or the name ends with .pdf in any
\* mix of upper and lower case
ClaimAccepts(f) ==
    \/ f.type = <<"application/pdf">>
    \/ /\ Len(f.name) >= 4
       /\ f.name[Len(f.name) - 3] = "."
       /\ f.name[Len(f.name) - 2] \in {"p", "P"}
       /\ f.name[Len(f.name) - 1] \in {"d", "D"}
       /\ f.name[Len(f.name)] \in {"f", "F"}

HasIdentity(q, id) == \E i \in DOMAIN q : Identity(q[i]) = id

\* position of the first accepted file with identity id in q
FirstIndex(q, id) ==
    CHOOSE i \in DOMAIN q :
        /\ Identity(q[i]) = id /\ ClaimAccepts(q[i])
        /\ \A j \in 1..(i - 1) : ~(Identity(q[j]) = id /\ ClaimAccepts(q[j]))

RECURSIVE DedupAppend(_, _)
\* S followed by the accepted files of q whose identity is not yet present,
\* each identity once, at its first occurrence
DedupAppend(S, q) ==
    IF q = <<>> THEN S
    ELSE IF ClaimAccepts(Head(q)) /\ ~HasIdentity(S, Identity(Head(q)))
         THEN DedupAppend(Append(S, Head(q)), Tail(q))
         ELSE DedupAppend(S, Tail(q))

RECURSIVE SumSizes(_)
SumSizes(q) == IF q = <<>> THEN 0 ELSE Head(q).size + SumSizes(Tail(q))

\* the files of q that are not accepted, in the order of q
Rejected(q) == SelectSeq(q, LAMBDA f : ~ClaimAccepts(f))

---------------------------------------------------------------------------
\* two entries present before and after the step keep their relative order
OrderKept ==
    \A i, j \in DOMAIN files : \A i2, j2 \in DOMAIN files' :
        (i < j /\ files'[i2] = files[i] /\ files'[j2] = files[j]) => i2 < j2

\* the previous entries come first, unchanged, and the new entries follow in
\* the order of their first occurrence in the incoming list
NewEntriesAppended ==
    LET items == lastInput'.fileList.items
    IN  /\ Len(files') >= Len(files)
        /\ SubSeq(files', 1, Len(files)) = files
        /\ \A p, q \in (Len(files) + 1)..Len(files') :
               p < q => FirstIndex(items, Identity(files'[p]))
                          < FirstIndex(items, Identity(files'[q]))

(* C11: addFiles and removeFile keep the relative order of the entries     *)
(* that stay; addFiles puts every new entry after all previous entries, in *)
(* the order of the incoming list.                                         *)
C11_OrderPreserved ==
    [][/\ (AddStep' \/ RemoveStep') => OrderKept
       /\ AddStep' => NewEntriesAppended]_vars

C11_Witness ==
    /\ AddStep
    /\ Len(lastInput.fileList.items) = 2
    /\ Len(files) = 3
    /\ files[2] = lastInput.fileList.items[1]
    /\ files[3] = lastInput.fileList.items[2]

(* C12: after addFiles(B) the selection is the previous selection followed *)
(* by the accepted files of B whose identity was not present, each taken   *)
(* once at its first occurrence; [a.pdf, b.txt, a.pdf] added to an empty   *)
(* selection gives the single entry a.pdf and a total of 1000 bytes.       *)
C12_AddFilesResult ==
    [][AddStep' =>
         /\ files' = DedupAppend(files, lastInput'.fileList.items)
         /\ (files = <<>> /\ lastInput'.fileList.items = <<APdf, BTxt, APdf>>)
                => (files' = <<APdf>> /\ totalSize' = 1000)]_vars

C12_Witness ==
    /\ AddStep
    /\ lastInput.fileList.items = <<APdf, BTxt, APdf>>
    /\ files = <<APdf>>
    /\ totalSize = 1000

(* C13: addFiles accepts a file exactly when its declared type is          *)
(* application/pdf or its name ends with .pdf in any letter case:          *)
(* report.PDF without a type gets in, image.png does not, and no rejected  *)
(* file is ever in the selection.                                          *)
C13_AcceptedIffPdf ==
    /\ \A i \in DOMAIN files : ClaimAccepts(files[i])
    /\ AddStep => \A j \in DOMAIN lastInput.fileList.items :
           LET f == lastInput.fileList.items[j]
           IN  IF ClaimAccepts(f)
               THEN HasIdentity(files, Identity(f))
               ELSE \A k \in DOMAIN files : files[k] # f

C13_Witness ==
    /\ AddStep
    /\ lastInput.fileList.items = <<Report, ImagePng>>
    /\ files = <<Report>>

(* C14: a batch with k rejected files raises exactly k rejection alerts,   *)
(* one per rejected file and naming it, and every accepted file of the     *)
(* batch, before or after a rejected one, is merged.                       *)
C14_RejectionDoesNotAbort ==
    AddStep =>
        LET items == lastInput.fileList.items
            rej == Rejected(items)
        IN  /\ Len(lastAlerts) = Len(rej)
            /\ \A k \in DOMAIN rej :
                   lastAlerts[k] = [kind |-> "skipped", detail |-> rej[k].name]
            /\ \A j \in DOMAIN items :
                   ClaimAccepts(items[j]) => HasIdentity(files, Identity(items[j]))

C14_Witness ==
    /\ AddStep
    /\ lastInput.fileList.items = <<BTxt, Report>>
    /\ Len(lastAlerts) = 1
    /\ files = <<Report>>

(* C15: removeFile(idx) removes exactly the entry at idx when idx is in    *)
(* the list and changes nothing otherwise; the other entries stay, in      *)
(* their order.                                                            *)
C15_RemoveExactlyOne ==
    [][RemoveStep' =>
         LET idx == lastInput'.idx
         IN  IF idx >= 0 /\ idx < Len(files)
             THEN /\ Len(files') = Len(files) - 1
                  /\ \A k \in DOMAIN files' :
                         files'[k] = IF k <= idx THEN files[k] ELSE files[k + 1]
             ELSE files' = files]_vars

C15_Witness ==
    /\ RemoveStep
    /\ lastInput.idx = 1
    /\ Len(files) = 2

(* C16: the displayed total size is the sum of the sizes of the entries in *)
(* the selection, 0 when the selection is empty.                           *)
C16_TotalIsSum ==
    /\ totalSize = SumSizes(files)
    /\ files = <<>> => totalSize = 0

C16_Witness ==
    /\ Len(files) = 2
    /\ totalSize = 1007

(* C17: the payload of a submission has one part per selection entry, each *)
(* under the field name "files", in selection order, and nothing else.     *)
C17_PayloadMirrorsSelection ==
    (SubmitStep /\ lastInput.guard = "passed") =>
        /\ Len(requests) >= 1
        /\ LET call == requests[Len(requests)]
           IN  /\ call.method = "POST"
               /\ Len(call.body) = Len(files)
               /\ \A i \in DOMAIN files :
                      call.body[i][1] = "files" /\ call.body[i][2] = files[i]

C17_Witness ==
    /\ SubmitStep
    /\ lastInput.guard = "passed"
    /\ Len(requests) = 1
    /\ Len(requests[1].body) = 2
    /\ requests[1].body[2] = <<"files", files[2]>>

---------------------------------------------------------------------------
(* Notions of the session properties *)

DragEvents == {"handleDragOver", "handleDragLeave", "handleDrop"}
OutcomeEvents == {"fetch", "safeJson"}

\* the step just taken ended a handleSendAll call
OutcomeProcessed == JsonStep \/ Failed

(* C18 as claimed: the session is never Dragging and Uploading at once,    *)
(* and once a submission outcome has been processed it is Idle: neither    *)
(* Uploading nor Dragging.                                                 *)
C18_OneStateAtATime ==
    /\ ~(isDragging /\ isUploading)
    /\ OutcomeProcessed => (~isUploading /\ ~isDragging)

(* C18 amended: the uploading and the dragging flag are independent, so    *)
(* the session can be Dragging while Uploading; a drag event never changes *)
(* the uploading flag, and processing an outcome resets the uploading flag *)
(* and leaves the dragging flag as it was.                                 *)
C18_FlagsIndependent ==
    [][/\ (isDragging' # isDragging)
              => (lastEvent' \in DragEvents /\ isUploading' = isUploading)
       /\ (isUploading' # isUploading)
              => (lastEvent' \in OutcomeEvents \cup {"handleSendAll"}
                    /\ isDragging' = isDragging)
       /\ OutcomeProcessed' => ~isUploading']_vars

C18_Witness ==
    /\ JsonStep
    /\ isDragging
    /\ ~isUploading
    /\ files = <<>>

(* C19: drag-over sets Dragging; drag-leave and drop clear it; a drop      *)
(* applies addFiles once to the dropped files; no drag or drop event       *)
(* dispatches a request.                                                   *)
C19_DragAndDrop ==
    [][/\ lastEvent' = "handleDragOver" => (isDragging' /\ files' = files)
       /\ lastEvent' = "handleDragLeave" => (~isDragging' /\ files' = files)
       /\ lastEvent' = "handleDrop"
              => /\ ~isDragging'
                 /\ files' = DedupAppend(files, lastInput'.fileList.items)
       /\ lastEvent' \in DragEvents
              => /\ dispatched' = dispatched
                 /\ requests' = requests
                 /\ isUploading' = isUploading]_vars

C19_Witness ==
    /\ lastEvent = "handleDrop"
    /\ lastInput.fileList.items = <<BTxt, Report>>
    /\ ~isDragging
    /\ isUploading
    /\ Len(files) = 2
    /\ files[2] = Report

(* C20 as claimed: Uploading is left only by processing the request's      *)
(* outcome, and the state the session returns to is Idle.                  *)
C20_UploadingEndsInIdle ==
    [][(isUploading /\ ~isUploading')
          => (lastEvent' \in OutcomeEvents /\ ~isDragging')]_vars

(* C20 amended: Uploading is left only by processing the request's         *)
(* outcome, so it lasts for ever if the request never settles; if the      *)
(* request settles (success, failure status, transport error, unreadable   *)
(* body) the session eventually leaves Uploading.                          *)
C20_UploadingEndsWithOutcome ==
    /\ [][(isUploading /\ ~isUploading') => lastEvent' \in OutcomeEvents]_vars
    /\ (isUploading ~> ~isUploading)

C20_Witness ==
    /\ JsonStep
    /\ lastInput.body = "malformed"
    /\ ~isUploading
    /\ requests = <<>>

---------------------------------------------------------------------------
\* the fetch of the step just taken was answered 401
Unauthorized == HttpFailed /\ lastInput.status = 401

(* C21 as claimed: an upload answered 401 is a failure like any other: the *)
(* report shows 401, the selection is kept, the stored credential is not   *)
(* touched, and the session is Idle afterwards (neither uploading nor      *)
(* dragging).                                                              *)
C21_UnauthorizedReturnsToIdle ==
    [][Unauthorized' => /\ files' = files
                        /\ StatusShown(lastAlerts'[1]) = 401
                        /\ localStorage' = localStorage
                        /\ ~isUploading'
                        /\ ~isDragging']_vars

(* C21 amended: an upload answered 401 is a failure like any other: one    *)
(* failure report, showing 401; the selection is kept; onUpload is not     *)
(* called and nothing is dispatched again; neither localStorage nor the    *)
(* token state of useFetch is touched; the uploading flag is reset and the *)
(* dragging flag keeps its value.                                          *)
C21_UnauthorizedIsPlainFailure ==
    [][Unauthorized' => /\ files' = files
                        /\ Len(lastAlerts') = 1
                        /\ lastAlerts'[1].kind = "error"
                        /\ StatusShown(lastAlerts'[1]) = 401
                        /\ lastCalls' = <<>>
                        /\ dispatched' = dispatched
                        /\ localStorage' = localStorage
                        /\ useFetch' = useFetch
                        /\ isUploading /\ ~isUploading'
                        /\ isDragging' = isDragging]_vars

C21_Witness ==
    /\ Unauthorized
    /\ Len(files) = 1
    /\ localStorage = LoggedIn
    /\ ~isUploading
    /\ isDragging

(* C22: addFiles with a null, undefined or empty file list changes nothing *)
(* and alerts nothing: selection, total, uploading flag and requests are   *)
(* as before; the dragging flag is as before when the list came from the   *)
(* file input (a drop clears it in handleDrop, before addFiles is called). *)
C22_EmptyAddIsNoop ==
    [][(AddStep' /\ (lastInput'.fileList.isNull
                        \/ Len(lastInput'.fileList.items) = 0))
          => /\ files' = files
             /\ totalSize' = totalSize
             /\ lastAlerts' = <<>>
             /\ lastCalls' = <<>>
             /\ UNCHANGED <<isUploading, requests, dispatched, open>>
             /\ lastEvent' = "handleFileChange" => isDragging' = isDragging
             /\ lastEvent' = "handleDrop" => ~isDragging']_vars

C22_Witness ==
    /\ lastEvent = "handleFileChange"
    /\ lastInput.fileList.isNull
    /\ Len(files) = 2
    /\ isDragging
    /\ isUploading

---------------------------------------------------------------------------
(* Notions of the useFetch properties *)

\* the step just taken was a call of fetchWithAuth / the end of one
AuthCallStep   == useFetch.event = "fetchWithAuth"
AuthSettleStep == useFetch.event = "settled"

\* the positions of the entries named key in a headers object
EntriesNamed(h, key) == {i \in DOMAIN h : h[i][1] = key}

\* the bearer value for a token state: "Bearer " and the token, the text
\* "null" when there is none
ClaimBearer(token) ==
    IF token.isNull THEN <<"Bearer ", "null">> ELSE <<"Bearer ">> \o token.value

(* C23: the request fetchWithAuth hands to fetch has exactly one            *)
(* Authorization entry, the bearer value of the hook's token, whatever      *)
(* Authorization entry the caller passed; every other header of the caller  *)
(* is there with its value and no other header is added; method and body    *)
(* are the caller's.                                                        *)
C23_BearerAttached ==
    AuthCallStep =>
        LET o == useFetch.options
            r == useFetch.init
        IN  /\ useFetch.calls # <<>>
            /\ useFetch.calls[Len(useFetch.calls)] = r
            /\ Cardinality(EntriesNamed(r.headers, "Authorization")) = 1
            /\ \A i \in EntriesNamed(r.headers, "Authorization") :
                   r.headers[i][2] = ClaimBearer(useFetch.token)
            /\ \A i \in DOMAIN o.headers :
                   o.headers[i][1] # "Authorization"
                       => \E j \in DOMAIN r.headers : r.headers[j] = o.headers[i]
            /\ \A j \in DOMAIN r.headers :
                   r.headers[j][1] # "Authorization"
                       => \E i \in DOMAIN o.headers : o.headers[i] = r.headers[j]
            /\ r.method = o.method
            /\ r.body = o.body

C23_Witness ==
    /\ AuthCallStep
    /\ ~useFetch.token.isNull
    /\ useFetch.options.headers = <<<<"Authorization", BasicValue>>,
                                    <<"Accept", <<"*/*">>>>>>
    /\ ~useFetch.options.method.isNull
    /\ Len(useFetch.init.headers) = 2

(* C28: a settled fetchWithAuth call ends in exactly one of three ways: on  *)
(* a 401 response auth_token and refresh_token are removed from storage,   *)
(* the token state becomes null and null is returned; on a transport       *)
(* failure null is returned, nothing is thrown, storage and token state    *)
(* are as before; any other response is returned as it is, storage and     *)
(* token state as before.                                                  *)
C28_ThreeWayClassification ==
    [][AuthSettleStep' =>
         LET res == useFetch'.res
             result == useFetch'.result
         IN  /\ result.kind \in {"null", "response"}
             /\ IF res.kind = "response" /\ res.status = 401
                THEN /\ localStorage'.auth_token.isNull
                     /\ localStorage'.refresh_token.isNull
                     /\ useFetch'.token.isNull
                     /\ result.kind = "null"
                ELSE IF res.kind = "throw"
                THEN /\ result.kind = "null"
                     /\ localStorage' = localStorage
                     /\ useFetch'.token = useFetch.token
                ELSE /\ result = res
                     /\ localStorage' = localStorage
                     /\ useFetch'.token = useFetch.token]_vars

C28_Witness ==
    /\ AuthSettleStep
    /\ useFetch.res = Response(401)
    /\ useFetch.result = NullResult
    /\ \E i \in DOMAIN useFetch.init.headers :
           useFetch.init.headers[i] = <<"Authorization", <<"Bearer ", "t", "1">>>>
    /\ localStorage = Storage(Null, Null)
    /\ useFetch.token.isNull

---------------------------------------------------------------------------
(* Notions of the in-flight properties *)

\* the files of a payload, in order
PayloadFiles(body) == [i \in DOMAIN body |-> body[i][2]]

InSeq(q, x) == \E i \in DOMAIN q : q[i] = x

(* C24: the payload of a request is the selection as it was when           *)
(* handleSendAll passed its guard, and it stays that while the request is  *)
(* outstanding: no drop, file pick, Remove or other step changes it.       *)
C24_PayloadFixedAtSubmit ==
    [][/\ (SubmitStep' /\ lastInput'.guard = "passed")
              => /\ requests' # <<>>
                 /\ PayloadFiles(requests'[Len(requests')].body) = files
       /\ (requests # <<>> /\ requests' # <<>>)
              => requests'[1].body = requests[1].body]_vars

C24_Witness ==
    /\ lastEvent \in {"handleDrop", "removeFile"}
    /\ Len(requests) = 1
    /\ requests[1].pc = "fetch"
    /\ PayloadFiles(requests[1].body) = <<APdf>>
    /\ files = <<Report>>

(* C25: a success removes from the selection only files that were in the   *)
(* payload of that submission: a file added while the request was in       *)
(* flight is still selected after the success has been processed.          *)
C25_SuccessRemovesOnlyPayload ==
    [][JsonStep' =>
         \A k \in DOMAIN files :
             ~InSeq(PayloadFiles(requests[1].body), files[k])
                 => InSeq(files', files[k])]_vars

---------------------------------------------------------------------------
(* Notions of the dialog properties *)

OnCloseCalls == SelectSeq(lastCalls, LAMBDA c : c.fn = "onClose")

\* the body of the step just taken, as safeJson gives it to the handler
DataRead == IF lastInput.body = "json" THEN "data" ELSE "null"

(* C26: in the dialog, processing a success calls onUpload with the parsed *)
(* body, clears the selection and then calls onClose, once; no other step  *)
(* of a submission calls onClose: not the dispatch, not the arrival of the *)
(* response, not a failure, which leaves the dialog as it is with the      *)
(* selection intact.                                                       *)
C26_CloseOnceOnSuccess ==
    [][variant = "dialog" =>
         /\ JsonStep' => /\ lastCalls' = <<[fn |-> "onUpload", arg |-> DataRead'],
                                           [fn |-> "onClose", arg |-> "none"]>>
                         /\ files' = <<>>
                         /\ ~open'
         /\ (SubmitStep' \/ FetchStep') => /\ OnCloseCalls' = <<>>
                                           /\ open' = open
         /\ Failed' => files' = files]_vars

C26_Witness ==
    /\ variant = "dialog"
    /\ JsonStep
    /\ lastInput.body = "json"
    /\ Len(OnCloseCalls) = 1
    /\ lastCalls[Len(lastCalls)].fn = "onClose"
    /\ ~open
    /\ files = <<>>

(* C27: closing the dialog changes neither the selection nor the request   *)
(* in flight nor the uploading flag; an outcome that arrives while the     *)
(* dialog is closed is processed as usual (a success clears the selection  *)
(* and calls onUpload, every outcome resets the uploading flag); opening   *)
(* the dialog again changes nothing either, so a selection left at close   *)
(* is there; onClose is triggered only while the dialog is open.           *)
C27_CloseDoesNotCancel ==
    [][variant = "dialog" =>
         /\ lastEvent' \in {"onClose", "openDialog"}
                => UNCHANGED <<files, totalSize, requests, isUploading,
                               isDragging, dispatched>>
         /\ lastEvent' = "onClose" => (open /\ ~open')
         /\ (~open /\ JsonStep') => /\ files' = <<>>
                                    /\ Len(OnUploadCalls') = 1
                                    /\ ~isUploading'
                                    /\ requests' = <<>>
         /\ (~open /\ Failed') => /\ files' = files
                                  /\ ~isUploading'
                                  /\ requests' = <<>>]_vars

C27_Witness ==
    /\ variant = "dialog"
    /\ lastEvent = "openDialog"
    /\ Len(files) = 2
    /\ Len(requests) = 1
    /\ requests[1].pc = "json"
    /\ isUploading

---------------------------------------------------------------------------
(* Notions of the AuthModal properties *)

\* the step just taken was given a response that is no success: the fetch
\* rejected, or the status is outside 200..299
AuthFetchFailed ==
    /\ authModal.event \in {"register", "token"}
    /\ \/ authModal.res.kind = "throw"
       \/ authModal.res.status < 200 \/ authModal.res.status > 299

(* C29: localStorage is written only by the step that has read the body of *)
(* a /token response with a success status; a sign-up whose password and   *)
(* confirm differ sends nothing; a failed /register or /token response     *)
(* stores nothing, sends nothing more and calls neither onSuccess nor      *)
(* onClose; submitting is true exactly while an attempt is under way, so   *)
(* it is false again when the attempt has ended, whatever the outcome.     *)
C29_TokenStoredOnlyOnSuccess ==
    /\ [](authModal.submitting <=> authModal.pc # "none")
    /\ [][/\ localStorage' # localStorage
                 => /\ authModal'.event = "json"
                    /\ authModal.pc = "json"
                    /\ authModal'.res.kind = "response"
                    /\ authModal'.res.status >= 200 /\ authModal'.res.status <= 299
                    /\ ~localStorage'.auth_token.isNull
          /\ (authModal'.event = "handleSubmit" /\ authModal.mode = "signup"
                  /\ authModal.password # authModal.confirm)
                 => /\ authModal'.sent = <<>>
                    /\ authModal'.pc = "none"
                    /\ ~authModal'.submitting
          /\ AuthFetchFailed'
                 => /\ localStorage' = localStorage
                    /\ authModal'.sent = <<>>
                    /\ authModal'.calls = <<>>
                    /\ authModal'.isOpen = authModal.isOpen
                    /\ authModal'.pc = "none"
                    /\ ~authModal'.submitting]_vars

C29_Witness ==
    /\ authModal.event = "json"
    /\ authModal.pcMode = "signup"
    /\ authModal.res = Response(200)
    /\ authModal.calls = <<OnSuccessCall, OnCloseCall>>
    /\ localStorage = LoggedIn
    /\ ~authModal.submitting
    /\ ~authModal.isOpen

---------------------------------------------------------------------------
(* Notions of the chat properties *)

ChatSendStep == chatbot.event = "handleSend"

\* the step just taken ended a chat request: the fetch rejected, or the body
\* of the response has been read (or has failed to parse)
ChatSettled ==
    \/ chatbot.event = "fetch" /\ chatbot.res.kind = "throw"
    \/ chatbot.event = "json"

\* the request ended as a failure: no response, a status outside 200..299,
\* or a body that is not JSON
ChatFailed ==
    /\ ChatSettled
    /\ \/ chatbot.res.kind = "throw"
       \/ chatbot.res.status < 200 \/ chatbot.res.status > 299
       \/ ~chatbot.data.parses

ChatSucceeded == ChatSettled /\ ~ChatFailed

IsBlank(s) == \A i \in DOMAIN s : s[i] = " "

(* C30: handleSend with a blank input or while loading changes nothing, so *)
(* at most one chat request is outstanding; loading is false once the      *)
(* request has settled; a success appends one bot message, right after the *)
(* user message, and clears the input; a failure appends nothing and       *)
(* leaves the input as it is.                                              *)
C30_ChatSendOutcome ==
    /\ [](Len(chatbot.calls) <= 1)
    /\ [][/\ (ChatSendStep' /\ (IsBlank(chatbot.input) \/ chatbot.loading))
                 => /\ chatbot'.messages = chatbot.messages
                    /\ chatbot'.input = chatbot.input
                    /\ chatbot'.loading = chatbot.loading
                    /\ chatbot'.calls = chatbot.calls
                    /\ chatbot'.sends = chatbot.sends
          /\ ChatSettled' => ~chatbot'.loading
          /\ ChatSucceeded'
                 => /\ Len(chatbot'.messages) = Len(chatbot.messages) + 1
                    /\ SubSeq(chatbot'.messages, 1, Len(chatbot.messages))
                           = chatbot.messages
                    /\ chatbot'.messages[Len(chatbot'.messages)].sender = "bot"
                    /\ chatbot.messages[Len(chatbot.messages)].sender = "user"
                    /\ chatbot'.input = <<>>
          /\ ChatFailed'
                 => /\ chatbot'.messages = chatbot.messages
                    /\ chatbot'.input = chatbot.input]_vars


\* the history that localStorage holds, as the component would read it back
StoredHistory(storage) ==
    IF getItem(storage, "chatMessages").isNull THEN <<>>
    ELSE JSONparse(getItem(storage, "chatMessages").value)

\* the step in which the effects of a first render run
ChatMountStep == chatbot.effects = "pending" /\ chatbot'.effects = "done"

\* C31: chat history persistence never loses saved messages on start-up.
\* Mounting the chat component over a saved history that is not empty leaves
\* the stored history as it was and makes it the message list; no step of
\* the component turns a stored history that is not empty into an empty or
\* missing one; and once the effects have run, whenever the message list is
\* not empty the stored history equals it.
C31_SavedHistoryKept ==
    /\ [][(ChatMountStep /\ StoredHistory(localStorage) # <<>>)
            => /\ localStorage'.chatMessages = localStorage.chatMessages
               /\ chatbot'.messages = StoredHistory(localStorage)]_vars
    /\ [][StoredHistory(localStorage) # <<>>
            => StoredHistory(localStorage') # <<>>]_vars
    /\ [](chatbot.effects = "done" /\ chatbot.messages # <<>>
            => /\ ~localStorage.chatMessages.isNull
               /\ StoredHistory(localStorage) = chatbot.messages
               /\ localStorage.chatMessages = Str(JSONstringify(chatbot.messages)))

\* a component mounted over a saved history has had an answer appended
C31_Witness ==
    /\ chatbot.effects = "done"
    /\ chatbot.event = "json"
    /\ Len(chatbot.messages) > 2 * chatbot.sends
    /\ chatbot.messages[Len(chatbot.messages)].sender = "bot"
    /\ StoredHistory(localStorage) = chatbot.messages

=============================================================================
